---- MODULE Spec2Model ----
(***************************************************************************)
(* Model of the commitment-equivalence protocol of src/src/lib.rs:         *)
(* PolyCommitEquivalence::prove and PolyCommitEquivalence::verify, with    *)
(* the error conversions of src/src/error.rs.                              *)
(*                                                                         *)
(* The two polynomial commitment backends (PC1, PC2), the Fiat-Shamir      *)
(* generator and the field are external crates.  They are modelled here    *)
(* by their contract: the field is Z/Modulus, a commitment is an ideal     *)
(* binding commitment (the pair polynomial/randomness it was made from),   *)
(* an opening is valid for exactly the commitment, point, challenge and    *)
(* value it was produced for, and the transcript is a random oracle       *)
(* without collisions: an element squeezed from it is identified with the  *)
(* query that produced it (the bytes absorbed so far and the number of     *)
(* elements drawn since), and Scalar gives its residue in Z/Modulus, the   *)
(* value polynomials are evaluated at.                                     *)
(***************************************************************************)
EXTENDS Integers, Sequences, FiniteSets, TLC

\* ------------------------------------------------------------------ bounds
\* Size of the scalar field E::Fr of the model (Z/Modulus).
Modulus == 3
\* Number of coefficients of a polynomial (degree < MaxCoeffs).
MaxCoeffs == 2

Fr == 0 .. (Modulus - 1)
Polys == [1 .. MaxCoeffs -> Fr]
\* Blinding values a backend's commit may draw.
Randomness == {0, 1}
\* Degrees a trimmed committer key may support.
KeyDegrees == {MaxCoeffs - 2, MaxCoeffs - 1}

\* ------------------------------------------------- external collaborators
\* Polynomial::degree: index of the highest non-zero coefficient.
Degree(p) ==
    LET nz == {i \in 1 .. MaxCoeffs : p[i] # 0}
    IN  IF nz = {} THEN 0 ELSE (CHOOSE i \in nz : \A j \in nz : j <= i) - 1

RECURSIVE Horner(_, _, _)
Horner(p, x, i) ==
    IF i > MaxCoeffs THEN 0 ELSE (p[i] + x * Horner(p, x, i + 1)) % Modulus

\* PC::commit, done by the caller before prove: an ideal binding commitment.
Commit(sch, p, r) == [sch |-> sch, poly |-> p, rand |-> r]
Commitments(sch) == {Commit(sch, p, r) : p \in Polys, r \in Randomness}

\* Canonical bytes of one commitment (ToBytes of the group element).
ToBytes(c) == <<c.sch>> \o c.poly \o <<c.rand>>

\* The digest D over a byte string.
RECURSIVE Digest(_)
Digest(bytes) ==
    IF bytes = <<>> THEN 1
    ELSE (3 * Digest(SubSeq(bytes, 1, Len(bytes) - 1))
            + bytes[Len(bytes)] + 1) % 61

\* FiatShamirRng::from_seed(b"")
FromSeed == [absorbed |-> <<>>, drawn |-> 0]
\* FiatShamirRng::absorb
Absorb(fs, bytes) == [absorbed |-> fs.absorbed \o bytes, drawn |-> 0]
\* E::Fr::rand(&mut fs_rng): the element drawn, and the generator afterwards
FieldRand(fs) == [absorbed |-> fs.absorbed, drawn |-> fs.drawn]
Advance(fs) == [fs EXCEPT !.drawn = @ + 1]
\* A challenge not derived yet.
Unset == [absorbed |-> <<>>, drawn |-> 0 - 1]
\* The residue of a squeezed element in Z/Modulus.
Scalar(z) == ((Digest(z.absorbed) + 1) \div (Modulus ^ z.drawn)) % Modulus

\* rand::RngCore: the generator after a value was drawn from it; a generator
\* is the number of values drawn from it so far.
RngNext(rng) == rng + 1

\* polynomial.evaluate(&point)
Evaluate(p, z) == Horner(p, Scalar(z), 1)

NoOpening == [kind |-> "none", sch |-> 0, poly |-> <<>>, rand |-> 0, point |-> Unset, chal |-> Unset]
\* An opening proof whose encoding the backend cannot use (wrong lengths).
Malformed == [kind |-> "malformed", sch |-> 0, poly |-> <<>>, rand |-> 0, point |-> Unset, chal |-> Unset]

\* PC::open: fails when the polynomial exceeds the committer key's degree,
\* otherwise the opening of that polynomial under that randomness.
Open(sch, ckDegree, p, c, point, chal, r) ==
    IF Degree(p) > ckDegree
    THEN [ok |-> FALSE, error |-> "TooManyCoefficients", proof |-> NoOpening]
    ELSE [ok |-> TRUE, error |-> "",
          proof |-> [kind |-> "opening", sch |-> sch, poly |-> p, rand |-> r,
                     point |-> point, chal |-> chal]]

\* PC::check: Err on a malformed opening; Ok(true) exactly for the opening
\* made for this commitment, point, challenge and value; Ok(false) otherwise.
Check(sch, c, point, value, opening, chal) ==
    IF opening.kind # "opening"
    THEN [ok |-> FALSE, error |-> "IncorrectInputLength", value |-> FALSE]
    ELSE [ok |-> TRUE, error |-> "",
          value |-> /\ opening.sch = sch
                    /\ c = Commit(sch, opening.poly, opening.rand)
                    /\ opening.point = point
                    /\ opening.chal = chal
                    /\ Evaluate(opening.poly, point) = value]

\* ------------------------------------------------------------------ errors
\* error.rs: impl From<io::Error> for Error
FiatShamirError == [tag |-> "FiatShamirError", error |-> "io"]
KZGFailed == [tag |-> "KZGFailed", error |-> ""]
IPAFailed == [tag |-> "IPAFailed", error |-> ""]
\* error.rs: from_pc_error::<F, PC>(error); PC only names the error's type.
from_pc_error(pc, error) == [tag |-> "PCError", error |-> error]
Accepted == [tag |-> "Ok", error |-> ""]
NoResult == [tag |-> "none", error |-> ""]

\* ------------------------------------------------------------------- state
VARIABLES
    polynomial,     \* the polynomial handed to prove
    commitments,    \* <<PC1 commitment, PC2 commitment>> handed to prove
    ckDegree,       \* degree each committer key supports
    prover,         \* the frame of the prove call
    verifier,       \* the frame of the current verify call
    last            \* what the previous verify call was given and derived

vars == <<polynomial, commitments, ckDegree, prover, verifier, last>>

\* In a frame, rng is the generator `let rng = &mut thread_rng()` refers to
\* (lib.rs 64, 118), counted from the start of the call.

\* randomnesses: the blinding each commitment was made with
randomnesses == <<commitments[1].rand, commitments[2].rand>>

NoProof == [eval |-> 0, openings |-> <<NoOpening, NoOpening>>]
NoEval == 0 - 1

ProverIdle ==
    [pc |-> "start", rng |-> 0, fs |-> FromSeed, challenge_point |-> Unset,
     opening_challenge |-> Unset, evaluation |-> NoEval,
     pc1_opening |-> NoOpening, pc2_opening |-> NoOpening,
     calls |-> <<>>, proof |-> NoProof, result |-> NoResult]

VerifierIdle ==
    [pc |-> "idle", commitments |-> <<>>, proof |-> NoProof, rng |-> 0,
     fs |-> FromSeed,
     challenge_point |-> Unset, opening_challenge |-> Unset,
     kzg_check |-> "none", ipa_check |-> "none",
     calls |-> <<>>, result |-> NoResult]

NoLast == [set |-> FALSE, commitments |-> <<>>, proof |-> NoProof, calls |-> <<>>]

\* The polynomials the caller may commit to under PC2: `p` itself, `p` with
\* one coefficient changed, or `p` with every coefficient changed.
OtherPolys(p) ==
    {p} \cup {[p EXCEPT ![i] = v] : i \in 1 .. MaxCoeffs, v \in Fr}
        \cup {[i \in 1 .. MaxCoeffs |-> (p[i] + 1) % Modulus]}

\* The caller's part (tests::ipa_kzg_equivalence_accept / _reject): commit
\* `polynomial` under PC1 and some polynomial under PC2.
Init ==
    /\ polynomial \in Polys
    /\ \E other \in OtherPolys(polynomial), r1 \in Randomness, r2 \in Randomness :
          commitments = <<Commit(1, polynomial, r1), Commit(2, other, r2)>>
    /\ ckDegree \in [1 .. 2 -> KeyDegrees]
    /\ prover = ProverIdle
    /\ verifier = VerifierIdle
    /\ last = NoLast

\* ------------------------------------------------------------------- prove
\* Variants of the code, used to test that the properties below depend on it.
ProveTranscriptBytes_FirstOnly(coms) == ToBytes(coms[1])
ProveTranscriptBytes_Swapped(coms) == ToBytes(coms[2]) \o ToBytes(coms[1])

\* to_bytes!(commitments.0.commitment(), commitments.1.commitment())
ProveTranscriptBytes(coms) == ToBytes(coms[1]) \o ToBytes(coms[2])

\* lib.rs 67-71: fresh transcript, absorb both commitments; `?` returns the
\* io::Error of the encoding as FiatShamirError.
ProveAbsorb ==
    /\ prover.pc = "start"
    /\ \E encoded \in BOOLEAN :
          prover' = IF encoded
                    THEN [prover EXCEPT
                            !.fs = Absorb(FromSeed, ProveTranscriptBytes(commitments)),
                            !.pc = "absorbed"]
                    ELSE [prover EXCEPT !.result = FiatShamirError, !.pc = "done"]
    /\ UNCHANGED <<polynomial, commitments, ckDegree, verifier, last>>

\* lib.rs 73
ProveChallengePoint ==
    /\ prover.pc = "absorbed"
    /\ prover' = [prover EXCEPT !.challenge_point = FieldRand(prover.fs),
                                !.fs = Advance(prover.fs),
                                !.pc = "point"]
    /\ UNCHANGED <<polynomial, commitments, ckDegree, verifier, last>>

\* lib.rs 74
ProveOpeningChallenge ==
    /\ prover.pc = "point"
    /\ prover' = [prover EXCEPT !.opening_challenge = FieldRand(prover.fs),
                                !.fs = Advance(prover.fs),
                                !.pc = "derived"]
    /\ UNCHANGED <<polynomial, commitments, ckDegree, verifier, last>>

\* Variant: the polynomial evaluated at the other challenge.
ProveEvaluate_AtOpeningChallenge ==
    /\ prover.pc = "derived"
    /\ prover' = [prover EXCEPT
                    !.evaluation = Evaluate(polynomial, prover.opening_challenge),
                    !.pc = "evaluated"]
    /\ UNCHANGED <<polynomial, commitments, ckDegree, verifier, last>>

\* lib.rs 77
ProveEvaluate ==
    /\ prover.pc = "derived"
    /\ prover' = [prover EXCEPT
                    !.evaluation = Evaluate(polynomial, prover.challenge_point),
                    !.pc = "evaluated"]
    /\ UNCHANGED <<polynomial, commitments, ckDegree, verifier, last>>

\* What one call of a backend was given and what it returned.  It is given
\* Some(rng), the generator of the frame, and draws from it: rng_read is the
\* generator as the call found it, rng_written as the call left it.
OpenCall(sch, f, r) ==
    [op |-> "open", sch |-> sch, point |-> f.challenge_point,
     chal |-> f.opening_challenge, eval |-> NoEval,
     rng_read |-> f.rng, rng_written |-> RngNext(f.rng),
     ret |-> IF r.ok THEN "Ok" ELSE "Err"]

\* lib.rs 80-89: the result of PC1::open, `.map_err(from_pc_error)?`
\* returning the error at once.
OpenedPc1_Continue(f, r) ==
    [f EXCEPT !.pc1_opening = r.proof,
              !.calls = Append(@, OpenCall(1, f, r)),
              !.rng = RngNext(@),
              !.pc = "opened1"]

OpenedPc1(f, r) ==
    IF r.ok
    THEN [f EXCEPT !.pc1_opening = r.proof,
                   !.calls = Append(@, OpenCall(1, f, r)),
                   !.rng = RngNext(@),
                   !.pc = "opened1"]
    ELSE [f EXCEPT !.result = from_pc_error(1, r.error),
                   !.calls = Append(@, OpenCall(1, f, r)),
                   !.rng = RngNext(@),
                   !.pc = "done"]

\* Variant: prove compares commitment 2 with the polynomial before it
\* returns the proof.
OpenedPc2_ChecksCommitment(f, r) ==
    IF r.ok /\ commitments[2].poly = polynomial
    THEN [f EXCEPT !.pc2_opening = r.proof,
                   !.calls = Append(@, OpenCall(2, f, r)),
                   !.rng = RngNext(@),
                   !.proof = [eval |-> f.evaluation,
                              openings |-> <<f.pc1_opening, r.proof>>],
                   !.result = Accepted,
                   !.pc = "done"]
    ELSE [f EXCEPT !.result = from_pc_error(2, "MismatchedCommitment"),
                   !.calls = Append(@, OpenCall(2, f, r)),
                   !.rng = RngNext(@),
                   !.pc = "done"]

\* lib.rs 91-107: the result of PC2::open, then the proof.
OpenedPc2(f, r) ==
    IF r.ok
    THEN [f EXCEPT !.pc2_opening = r.proof,
                   !.calls = Append(@, OpenCall(2, f, r)),
                   !.rng = RngNext(@),
                   !.proof = [eval |-> f.evaluation,
                              openings |-> <<f.pc1_opening, r.proof>>],
                   !.result = Accepted,
                   !.pc = "done"]
    ELSE [f EXCEPT !.result = from_pc_error(2, r.error),
                   !.calls = Append(@, OpenCall(2, f, r)),
                   !.rng = RngNext(@),
                   !.pc = "done"]

\* lib.rs 80-89: PC1::open(...).map_err(from_pc_error::<E::Fr, PC1>)?
ProveOpen1 ==
    /\ prover.pc = "evaluated"
    /\ prover' = OpenedPc1(prover,
                           Open(1, ckDegree[1], polynomial, commitments[1],
                                prover.challenge_point, prover.opening_challenge,
                                randomnesses[1]))
    /\ UNCHANGED <<polynomial, commitments, ckDegree, verifier, last>>

\* lib.rs 91-107: PC2::open(...).map_err(from_pc_error::<E::Fr, PC2>)?, then
\* Ok(Proof { eval: evaluation, openings: (pc1_opening, pc2_opening) })
ProveOpen2 ==
    /\ prover.pc = "opened1"
    /\ prover' = OpenedPc2(prover,
                           Open(2, ckDegree[2], polynomial, commitments[2],
                                prover.challenge_point, prover.opening_challenge,
                                randomnesses[2]))
    /\ UNCHANGED <<polynomial, commitments, ckDegree, verifier, last>>

\* ------------------------------------------------------------------ verify
\* A commitment with one byte of its encoding changed (the scheme is the
\* commitment's type, not a byte of it).
FlipByte(c) ==
    ({[c EXCEPT !.poly[i] = v] : i \in 1 .. MaxCoeffs, v \in Fr}
        \cup {[c EXCEPT !.rand = r] : r \in Randomness}) \ {c}

\* The commitment pairs the caller may hand to verify: the pair prove was
\* given, or that pair with one byte of one commitment changed.
VerifyCommitments ==
    {commitments}
        \cup {<<c, commitments[2]>> : c \in FlipByte(commitments[1])}
        \cup {<<commitments[1], c>> : c \in FlipByte(commitments[2])}

\* The proofs the caller may hand to verify: prove's proof, possibly with
\* another evaluation or with an opening replaced by an unusable one.
VerifyProofs ==
    {[eval |-> e, openings |-> <<o1, o2>>] :
        e \in Fr,
        o1 \in {prover.proof.openings[1], Malformed},
        o2 \in {prover.proof.openings[2], Malformed}}

\* The caller: verify(verifier_keys, commitments, proof), after a prove that
\* returned a proof.
VerifyCall ==
    /\ prover.pc = "done"
    /\ prover.result = Accepted
    /\ verifier.pc = "idle"
    /\ \E coms \in VerifyCommitments, proof \in VerifyProofs :
          /\ coms = commitments \/ proof = prover.proof
          /\ verifier' = [VerifierIdle EXCEPT !.pc = "start",
                                              !.commitments = coms,
                                              !.proof = proof]
    /\ UNCHANGED <<polynomial, commitments, ckDegree, prover, last>>

VerifyTranscriptBytes_Swapped(coms, proof) == ToBytes(coms[2]) \o ToBytes(coms[1])
VerifyTranscriptBytes_WithEval(coms, proof) ==
    ToBytes(coms[1]) \o ToBytes(coms[2]) \o <<proof.eval>>

\* to_bytes!(commitments.0.commitment(), commitments.1.commitment())
VerifyTranscriptBytes(coms, proof) == ToBytes(coms[1]) \o ToBytes(coms[2])

\* Variant: the transcript of the previous call is kept and used again.
VerifyAbsorb_Cached ==
    /\ verifier.pc = "start"
    /\ \E encoded \in BOOLEAN :
          verifier' =
              IF encoded
              THEN [verifier EXCEPT
                      !.fs = Absorb(FromSeed,
                                    VerifyTranscriptBytes(
                                        IF last.set THEN last.commitments
                                                    ELSE verifier.commitments,
                                        verifier.proof)),
                      !.pc = "absorbed"]
              ELSE [verifier EXCEPT !.result = FiatShamirError, !.pc = "done"]
    /\ UNCHANGED <<polynomial, commitments, ckDegree, prover, last>>

\* Variant: the encoding's io::Error is dropped and verify goes on.
VerifyAbsorb_IgnoreError ==
    /\ verifier.pc = "start"
    /\ \E encoded \in BOOLEAN :
          verifier' =
              IF encoded
              THEN [verifier EXCEPT
                      !.fs = Absorb(FromSeed,
                                    VerifyTranscriptBytes(verifier.commitments,
                                                          verifier.proof)),
                      !.pc = "absorbed"]
              ELSE [verifier EXCEPT !.pc = "absorbed"]
    /\ UNCHANGED <<polynomial, commitments, ckDegree, prover, last>>

\* lib.rs 121-125
VerifyAbsorb ==
    /\ verifier.pc = "start"
    /\ \E encoded \in BOOLEAN :
          verifier' =
              IF encoded
              THEN [verifier EXCEPT
                      !.fs = Absorb(FromSeed,
                                    VerifyTranscriptBytes(verifier.commitments,
                                                          verifier.proof)),
                      !.pc = "absorbed"]
              ELSE [verifier EXCEPT !.result = FiatShamirError, !.pc = "done"]
    /\ UNCHANGED <<polynomial, commitments, ckDegree, prover, last>>

\* lib.rs 126
VerifyChallengePoint ==
    /\ verifier.pc = "absorbed"
    /\ verifier' = [verifier EXCEPT !.challenge_point = FieldRand(verifier.fs),
                                    !.fs = Advance(verifier.fs),
                                    !.pc = "point"]
    /\ UNCHANGED <<polynomial, commitments, ckDegree, prover, last>>

\* Variant: challenge_point is absorbed before the second element is drawn.
VerifyOpeningChallenge_Reabsorb ==
    /\ verifier.pc = "point"
    /\ LET fs == Absorb(verifier.fs, <<Scalar(verifier.challenge_point)>>)
       IN  verifier' = [verifier EXCEPT !.opening_challenge = FieldRand(fs),
                                        !.fs = Advance(fs),
                                        !.pc = "derived"]
    /\ UNCHANGED <<polynomial, commitments, ckDegree, prover, last>>

\* lib.rs 127
VerifyOpeningChallenge ==
    /\ verifier.pc = "point"
    /\ verifier' = [verifier EXCEPT !.opening_challenge = FieldRand(verifier.fs),
                                    !.fs = Advance(verifier.fs),
                                    !.pc = "derived"]
    /\ UNCHANGED <<polynomial, commitments, ckDegree, prover, last>>

\* The three values a backend's check returns.
CheckResult(r) == IF ~r.ok THEN "Err" ELSE IF r.value THEN "Ok(true)" ELSE "Ok(false)"

CheckCall(sch, f, r) ==
    [op |-> "check", sch |-> sch, point |-> f.challenge_point,
     chal |-> f.opening_challenge, eval |-> f.proof.eval,
     rng_read |-> f.rng, rng_written |-> RngNext(f.rng),
     ret |-> CheckResult(r)]

MatchKzgCheck_ErrPasses(r) ==
    IF r.ok /\ r.value THEN NoResult
    ELSE IF r.ok THEN KZGFailed
    ELSE NoResult
MatchKzgCheck_WrongName(r) ==
    IF r.ok /\ r.value THEN NoResult
    ELSE IF r.ok THEN IPAFailed
    ELSE from_pc_error(1, r.error)
MatchKzgCheck_FalseAccepted(r) ==
    IF r.ok /\ r.value THEN NoResult
    ELSE IF r.ok THEN Accepted
    ELSE from_pc_error(1, r.error)

\* lib.rs 139-143: match kzg_check; NoResult stands for falling through.
MatchKzgCheck(r) ==
    IF r.ok /\ r.value THEN NoResult
    ELSE IF r.ok THEN KZGFailed
    ELSE from_pc_error(1, r.error)

MatchIpaCheck_FalseAccepted(r) ==
    IF r.ok THEN Accepted ELSE from_pc_error(2, r.error)
MatchIpaCheck_ErrRejects(r) ==
    IF r.ok /\ r.value THEN Accepted ELSE IPAFailed

\* lib.rs 154-158: match ipa_check, then Ok(()) (line 160)
MatchIpaCheck(r) ==
    IF r.ok /\ r.value THEN Accepted
    ELSE IF r.ok THEN IPAFailed
    ELSE from_pc_error(2, r.error)

\* Variant: PC2's check is called whatever PC1's check returned.
VerifyCheck1_NoShortCircuit ==
    /\ verifier.pc = "derived"
    /\ LET r == Check(1, verifier.commitments[1], verifier.challenge_point,
                      verifier.proof.eval, verifier.proof.openings[1],
                      verifier.opening_challenge)
       IN  verifier' = [verifier EXCEPT
                          !.kzg_check = CheckResult(r),
                          !.calls = Append(@, CheckCall(1, verifier, r)),
                          !.rng = RngNext(@),
                          !.result = NoResult,
                          !.pc = "checked1"]
    /\ UNCHANGED <<polynomial, commitments, ckDegree, prover, last>>

\* Variant: PC1's check is called as soon as challenge_point is derived.
VerifyCheck1_Early ==
    /\ verifier.pc \in {"point", "derived"}
    /\ LET r == Check(1, verifier.commitments[1], verifier.challenge_point,
                      verifier.proof.eval, verifier.proof.openings[1],
                      verifier.opening_challenge)
           out == MatchKzgCheck(r)
       IN  verifier' = [verifier EXCEPT
                          !.kzg_check = CheckResult(r),
                          !.calls = Append(@, CheckCall(1, verifier, r)),
                          !.rng = RngNext(@),
                          !.result = out,
                          !.pc = IF out = NoResult THEN "checked1" ELSE "done"]
    /\ UNCHANGED <<polynomial, commitments, ckDegree, prover, last>>

\* lib.rs 130-143
VerifyCheck1 ==
    /\ verifier.pc = "derived"
    /\ LET r == Check(1, verifier.commitments[1], verifier.challenge_point,
                      verifier.proof.eval, verifier.proof.openings[1],
                      verifier.opening_challenge)
           out == MatchKzgCheck(r)
       IN  verifier' = [verifier EXCEPT
                          !.kzg_check = CheckResult(r),
                          !.calls = Append(@, CheckCall(1, verifier, r)),
                          !.rng = RngNext(@),
                          !.result = out,
                          !.pc = IF out = NoResult THEN "checked1" ELSE "done"]
    /\ UNCHANGED <<polynomial, commitments, ckDegree, prover, last>>

\* lib.rs 145-160
VerifyCheck2 ==
    /\ verifier.pc = "checked1"
    /\ LET r == Check(2, verifier.commitments[2], verifier.challenge_point,
                      verifier.proof.eval, verifier.proof.openings[2],
                      verifier.opening_challenge)
       IN  verifier' = [verifier EXCEPT
                          !.ipa_check = CheckResult(r),
                          !.calls = Append(@, CheckCall(2, verifier, r)),
                          !.rng = RngNext(@),
                          !.result = MatchIpaCheck(r),
                          !.pc = "done"]
    /\ UNCHANGED <<polynomial, commitments, ckDegree, prover, last>>

\* The caller calls verify again: the finished call's frame is dropped.
VerifyAgain ==
    /\ verifier.pc = "done"
    /\ last' = [set |-> TRUE, commitments |-> verifier.commitments,
                proof |-> verifier.proof, calls |-> verifier.calls]
    /\ verifier' = VerifierIdle
    /\ UNCHANGED <<polynomial, commitments, ckDegree, prover>>

Prove ==
    \/ ProveAbsorb
    \/ ProveChallengePoint
    \/ ProveOpeningChallenge
    \/ ProveEvaluate
    \/ ProveOpen1
    \/ ProveOpen2

Verify ==
    \/ VerifyCall
    \/ VerifyAbsorb
    \/ VerifyChallengePoint
    \/ VerifyOpeningChallenge
    \/ VerifyCheck1
    \/ VerifyCheck2

\* One prove call, then one verify call.
Next == Prove \/ Verify

Spec == Init /\ [][Next]_vars

\* A polynomial of coefficients 0 and 1; commitment 2 made without blinding,
\* to `polynomial` or to the polynomial with every coefficient one higher
\* (tests::ipa_kzg_equivalence_reject commits to an unrelated polynomial).
InitFair ==
    /\ Init
    /\ polynomial \in [1 .. MaxCoeffs -> {0, 1}]
    /\ randomnesses = <<0, 0>>
    /\ commitments[2].poly
          \in {polynomial, [i \in 1 .. MaxCoeffs |-> (polynomial[i] + 1) % Modulus]}

\* One prove call, then one verify call, where a call that has started runs
\* on until it returns (prove and verify are straight-line code) and the
\* caller does go on to verify.
SpecFair == InitFair /\ [][Next]_vars /\ WF_vars(Next)

\* One prove call, then any number of verify calls, for one polynomial
\* committed under both backends.
InitReplay ==
    /\ Init
    /\ commitments[2].poly = polynomial
    /\ randomnesses = <<0, 0>>

NextReplay == Prove \/ Verify \/ VerifyAgain

SpecReplay == InitReplay /\ [][NextReplay]_vars

\* ----------------------------------------------------------- proof encoding
\* CanonicalSerialize of a field element, of a squeezed element (the query
\* that identifies it, length first) and of a backend's opening proof.
SerFr(x) == <<x>>
SerElement(z) == <<Len(z.absorbed)>> \o z.absorbed \o <<z.drawn>>
SerOpening(o) ==
    <<o.sch>> \o o.poly \o <<o.rand>> \o SerElement(o.point) \o SerElement(o.chal)

\* CanonicalDeserialize of the same: the value read at `pos` and the
\* position after it.
ReadFr(bytes, pos) == [value |-> bytes[pos], next |-> pos + 1]
ReadElement(bytes, pos) ==
    LET n == bytes[pos]
    IN  [value |-> [absorbed |-> SubSeq(bytes, pos + 1, pos + n),
                    drawn |-> bytes[pos + n + 1]],
         next |-> pos + n + 2]
ReadOpening(bytes, pos) ==
    LET point == ReadElement(bytes, pos + MaxCoeffs + 2)
        chal == ReadElement(bytes, point.next)
    IN  [value |-> [kind |-> "opening", sch |-> bytes[pos],
                    poly |-> SubSeq(bytes, pos + 1, pos + MaxCoeffs),
                    rand |-> bytes[pos + MaxCoeffs + 1],
                    point |-> point.value, chal |-> chal.value],
         next |-> chal.next]

\* Variant: opening 2 written before opening 1.
SerializeProof_OpeningsSwapped(p) ==
    SerFr(p.eval) \o SerOpening(p.openings[2]) \o SerOpening(p.openings[1])

\* lib.rs 37-46: derive(CanonicalSerialize) writes the fields of Proof in
\* the order they are declared: eval, openings.0, openings.1.
SerializeProof(p) ==
    SerFr(p.eval) \o SerOpening(p.openings[1]) \o SerOpening(p.openings[2])

\* lib.rs 37-46: derive(CanonicalDeserialize) reads them in the same order.
DeserializeProof(bytes) ==
    LET eval == ReadFr(bytes, 1)
        opening1 == ReadOpening(bytes, eval.next)
        opening2 == ReadOpening(bytes, opening1.next)
    IN  [eval |-> eval.value, openings |-> <<opening1.value, opening2.value>>]

\* The caller sends prove's proof to the verifier in its canonical encoding;
\* verify is given the commitments and the proof decoded from it.
VerifyDecoded ==
    /\ prover.pc = "done"
    /\ prover.result = Accepted
    /\ verifier.pc = "idle"
    /\ verifier' = [VerifierIdle EXCEPT
                       !.pc = "start",
                       !.commitments = commitments,
                       !.proof = DeserializeProof(SerializeProof(prover.proof))]
    /\ UNCHANGED <<polynomial, commitments, ckDegree, prover, last>>

NextCodec ==
    \/ Prove
    \/ VerifyDecoded
    \/ VerifyAbsorb
    \/ VerifyChallengePoint
    \/ VerifyOpeningChallenge
    \/ VerifyCheck1
    \/ VerifyCheck2

\* One prove call, then one verify call on the proof as received.
SpecCodec == Init /\ [][NextCodec]_vars

\* ------------------------------------------------------------------ claims
\* The verify call has returned.
VerifyDone == verifier.pc = "done"
\* The verify call was given what prove was given and what prove returned.
SameCommitments == verifier.commitments = commitments
ProvedProof == verifier.proof = prover.proof
\* Both commitments are honest commitments to `polynomial`.
SamePolynomial == commitments[2].poly = polynomial
\* The values of Error that verify returns as Err.
Rejections == {KZGFailed, IPAFailed}
IsErr(result) == result.tag \in {"FiatShamirError", "KZGFailed", "IPAFailed", "PCError"}

C2_Soundness ==
    (VerifyDone /\ ~SamePolynomial /\ SameCommitments /\ ProvedProof)
    => IsErr(verifier.result)

C2_Witness ==
    VerifyDone /\ ~SamePolynomial /\ SameCommitments /\ ProvedProof
        /\ verifier.result = IPAFailed
        /\ Evaluate(commitments[2].poly, verifier.challenge_point)
             = Evaluate(polynomial, verifier.challenge_point)

\* C3: verify returns Ok(()) exactly when PC1's check and PC2's check both
\* returned Ok(true).
C3_AcceptIffBothTrue ==
    VerifyDone =>
        (verifier.result = Accepted
            <=> (verifier.kzg_check = "Ok(true)" /\ verifier.ipa_check = "Ok(true)"))

C3_Witness ==
    VerifyDone /\ verifier.kzg_check = "Err" /\ verifier.result # Accepted

\* C4: the challenges verify derives from the commitments prove was given are
\* the challenges prove derived.
C4_SameChallenges ==
    SameCommitments =>
        /\ verifier.challenge_point # Unset
              => verifier.challenge_point = prover.challenge_point
        /\ verifier.opening_challenge # Unset
              => verifier.opening_challenge = prover.opening_challenge

C4_Witness ==
    verifier.pc = "derived" /\ SameCommitments
        /\ Scalar(verifier.challenge_point) # Scalar(verifier.opening_challenge)

\* C5: two verify calls given the same commitments pass the same
\* challenge_point and opening_challenge to every check, whatever the proofs.
C5_ChallengesIgnoreProof ==
    (last.set /\ last.commitments = verifier.commitments)
    => \A i \in 1 .. Len(last.calls), j \in 1 .. Len(verifier.calls) :
          /\ last.calls[i].point = verifier.calls[j].point
          /\ last.calls[i].chal = verifier.calls[j].chal

C5_Witness ==
    /\ last.set /\ last.commitments = verifier.commitments
    /\ last.proof.eval # verifier.proof.eval
    /\ last.proof.openings # verifier.proof.openings
    /\ Len(last.calls) = 1 /\ Len(verifier.calls) = 2

\* The result of the last check verify called.
LastCheck == IF verifier.ipa_check # "none" THEN verifier.ipa_check ELSE verifier.kzg_check

\* C6: verify returns KZGFailed or IPAFailed only when the check it called
\* last returned Ok(false), and PCError only when it returned Err; an
\* Ok(false) is never returned as PCError, an Err never as a rejection.
C6_RejectionVersusError ==
    VerifyDone =>
        /\ verifier.result \in Rejections <=> LastCheck = "Ok(false)"
        /\ verifier.result.tag = "PCError" <=> LastCheck = "Err"

C6_Witness ==
    VerifyDone /\ verifier.ipa_check = "Err" /\ verifier.result.tag = "PCError"

\* C7: the rejection names the backend whose check returned Ok(false).
C7_RejectionNamesBackend ==
    VerifyDone =>
        /\ verifier.result = KZGFailed <=> verifier.kzg_check = "Ok(false)"
        /\ verifier.result = IPAFailed
              <=> (verifier.kzg_check = "Ok(true)" /\ verifier.ipa_check = "Ok(false)")

C7_Witness ==
    VerifyDone /\ verifier.result = KZGFailed /\ ~ProvedProof

\* C8: prove stops at the first open that fails: after a failed PC1 open, PC2's
\* open is not called; a failed open makes prove return an error and no proof;
\* a proof is returned only after both opens succeeded, and holds the
\* evaluation and both openings.
C8_NoPartialProof ==
    /\ \A i \in 1 .. Len(prover.calls) :
          prover.calls[i].ret = "Err" =>
              /\ i = Len(prover.calls)
              /\ prover.pc = "done"
              /\ prover.result.tag = "PCError"
    /\ prover.result # Accepted => prover.proof = NoProof
    /\ prover.result = Accepted =>
          /\ Len(prover.calls) = 2
          /\ prover.calls[1].sch = 1 /\ prover.calls[1].ret = "Ok"
          /\ prover.calls[2].sch = 2 /\ prover.calls[2].ret = "Ok"
          /\ prover.proof.eval = prover.evaluation
          /\ prover.proof.openings[1].kind = "opening"
          /\ prover.proof.openings[1].sch = 1
          /\ prover.proof.openings[2].kind = "opening"
          /\ prover.proof.openings[2].sch = 2

C8_Witness ==
    /\ prover.pc = "done"
    /\ Len(prover.calls) = 1
    /\ prover.calls[1].ret = "Err"
    /\ Degree(polynomial) <= ckDegree[2]

\* The backend whose open failed in a prove call that returned PCError.
FailedBackend == prover.calls[Len(prover.calls)].sch

\* C9: the error prove returns for a failed open (and verify for a check that
\* returned Err) tells which backend failed: it is not the error the other
\* backend gives for the same failure.
C9_ErrorNamesBackend ==
    /\ (prover.pc = "done" /\ prover.result.tag = "PCError")
          => prover.result # from_pc_error(3 - FailedBackend, prover.result.error)
    /\ (VerifyDone /\ verifier.result.tag = "PCError")
          => verifier.result
                # from_pc_error(3 - verifier.calls[Len(verifier.calls)].sch,
                                verifier.result.error)

\* C10 (binding): verify given prove's proof and a pair of commitments that
\* differs from the pair prove was given never returns Ok(()).
C10_Binding ==
    (VerifyDone /\ ProvedProof /\ ~SameCommitments)
    => IsErr(verifier.result)

C10_Witness ==
    /\ VerifyDone /\ ProvedProof /\ ~SamePolynomial
    /\ verifier.commitments[1] = commitments[1]
    /\ verifier.commitments[2] = Commit(2, polynomial, commitments[2].rand)
    /\ verifier.result = KZGFailed
    /\ Scalar(verifier.challenge_point) = Scalar(prover.challenge_point)

\* The element first squeezed from a fresh transcript that absorbed `bytes`.
ChallengeOf(bytes) == FieldRand(Absorb(FromSeed, bytes))

\* C11 (order sensitivity): prove and verify absorb the bytes of commitment 1
\* and then those of commitment 2, and the challenge they derive is not the
\* one derived from the same two commitments absorbed in the other order.
C11_OrderSensitive ==
    /\ prover.challenge_point # Unset =>
          /\ prover.challenge_point
                = ChallengeOf(ToBytes(commitments[1]) \o ToBytes(commitments[2]))
          /\ prover.challenge_point
                # ChallengeOf(ToBytes(commitments[2]) \o ToBytes(commitments[1]))
    /\ verifier.challenge_point # Unset =>
          /\ verifier.challenge_point
                = ChallengeOf(ToBytes(verifier.commitments[1])
                                \o ToBytes(verifier.commitments[2]))
          /\ verifier.challenge_point
                # ChallengeOf(ToBytes(verifier.commitments[2])
                                \o ToBytes(verifier.commitments[1]))

C11_Witness ==
    /\ verifier.pc = "derived"
    /\ ~SameCommitments
    /\ verifier.commitments[1].poly = verifier.commitments[2].poly
    /\ verifier.commitments[1].rand = verifier.commitments[2].rand
    /\ prover.challenge_point # verifier.challenge_point

\* The call has returned and its transcript absorbed nothing: the encoding
\* of the commitments failed.
EncodingFailed(f) == f.pc = "done" /\ f.fs.absorbed = <<>>

\* C12: when the encoding of the commitments fails, prove and verify return
\* FiatShamirError, having derived no challenge and called no open and no
\* check; prove returns no proof.  FiatShamirError is returned in no other
\* case.
C12_TranscriptError ==
    /\ EncodingFailed(prover) =>
          /\ prover.result = FiatShamirError
          /\ prover.calls = <<>>
          /\ prover.challenge_point = Unset
          /\ prover.proof = NoProof
    /\ EncodingFailed(verifier) =>
          /\ verifier.result = FiatShamirError
          /\ verifier.calls = <<>>
          /\ verifier.challenge_point = Unset
          /\ verifier.kzg_check = "none" /\ verifier.ipa_check = "none"
    /\ prover.result = FiatShamirError => EncodingFailed(prover)
    /\ verifier.result = FiatShamirError => EncodingFailed(verifier)

C12_Witness ==
    /\ EncodingFailed(verifier)
    /\ verifier.result = FiatShamirError
    /\ SameCommitments /\ ProvedProof /\ SamePolynomial

\* C13 (round trip): the proof verify decodes from the canonical encoding of
\* prove's proof is prove's proof, and the encoding is the encoding of the
\* evaluation, then of opening 1, then of opening 2.
C13_RoundTrip ==
    /\ verifier.pc # "idle" => verifier.proof = prover.proof
    /\ prover.result = Accepted =>
          LET bytes == SerializeProof(prover.proof)
              n0 == Len(SerFr(prover.proof.eval))
              n1 == Len(SerOpening(prover.proof.openings[1]))
          IN  /\ SubSeq(bytes, 1, n0) = SerFr(prover.proof.eval)
              /\ SubSeq(bytes, n0 + 1, n0 + n1)
                    = SerOpening(prover.proof.openings[1])
              /\ SubSeq(bytes, n0 + n1 + 1, Len(bytes))
                    = SerOpening(prover.proof.openings[2])

C13_Witness ==
    /\ VerifyDone /\ verifier.result = Accepted
    /\ prover.proof.eval # 0
    /\ Degree(prover.proof.openings[1].poly) > 0
    /\ prover.proof.openings[1].rand # prover.proof.openings[2].rand

\* The two elements squeezed from a fresh transcript that absorbed the
\* commitments `coms`, in the order they are squeezed.
PointOf(coms) == ChallengeOf(ToBytes(coms[1]) \o ToBytes(coms[2]))
OpeningChallengeOf(coms) ==
    FieldRand(Advance(Absorb(FromSeed, ToBytes(coms[1]) \o ToBytes(coms[2]))))

\* C14: when prove returns a proof, the proof's evaluation is the value of
\* `polynomial` at the challenge_point derived from the two commitments;
\* prove called PC1's open and then PC2's open, each once, both with that
\* challenge_point and with the opening_challenge derived after it.
C14_ProofContents ==
    prover.result = Accepted =>
        /\ prover.proof.eval = Horner(polynomial, Scalar(PointOf(commitments)), 1)
        /\ Len(prover.calls) = 2
        /\ \A i \in 1 .. 2 :
              /\ prover.calls[i].op = "open"
              /\ prover.calls[i].sch = i
              /\ prover.calls[i].point = PointOf(commitments)
              /\ prover.calls[i].chal = OpeningChallengeOf(commitments)
              /\ prover.proof.openings[i].point = PointOf(commitments)
              /\ prover.proof.openings[i].chal = OpeningChallengeOf(commitments)

C14_Witness ==
    /\ prover.result = Accepted
    /\ Degree(polynomial) > 0
    /\ ~SamePolynomial
    /\ prover.proof.eval # Evaluate(polynomial, prover.opening_challenge)
    /\ prover.proof.eval # Evaluate(commitments[2].poly, prover.challenge_point)

\* The transcript of the call with frame `f`, given the commitments `coms`,
\* is where the call's position says: created from the empty seed, then
\* holding the bytes of the two commitments and nothing else, with none, one
\* and at last two elements drawn, the first being challenge_point and the
\* second opening_challenge.
TranscriptAt(f, coms) ==
    LET bytes == ToBytes(coms[1]) \o ToBytes(coms[2])
    IN  CASE f.pc \in {"idle", "start"} \/ f.result = FiatShamirError ->
                /\ f.fs = [absorbed |-> <<>>, drawn |-> 0]
                /\ f.challenge_point = Unset
                /\ f.opening_challenge = Unset
          [] f.pc = "absorbed" ->
                /\ f.fs = [absorbed |-> bytes, drawn |-> 0]
                /\ f.challenge_point = Unset
                /\ f.opening_challenge = Unset
          [] f.pc = "point" ->
                /\ f.fs = [absorbed |-> bytes, drawn |-> 1]
                /\ f.challenge_point = [absorbed |-> bytes, drawn |-> 0]
                /\ f.opening_challenge = Unset
          [] OTHER ->
                /\ f.fs = [absorbed |-> bytes, drawn |-> 2]
                /\ f.challenge_point = [absorbed |-> bytes, drawn |-> 0]
                /\ f.opening_challenge = [absorbed |-> bytes, drawn |-> 1]

\* C15: in prove and in verify the transcript starts from the empty seed,
\* absorbs the two commitments once, and is then drawn from twice, first for
\* challenge_point and then for opening_challenge; nothing else is absorbed
\* (not the evaluation, not an opening) and nothing more is drawn, up to the
\* return of the call.
C15_TranscriptSchedule ==
    /\ TranscriptAt(prover, commitments)
    /\ TranscriptAt(verifier, verifier.commitments)

C15_Witness ==
    /\ VerifyDone
    /\ Len(verifier.calls) = 2
    /\ ~ProvedProof
    /\ verifier.fs.drawn = 2
    /\ prover.fs = verifier.fs

\* The stages of a call.  Challenges (re)derived: both elements are squeezed.
ChallengesDerived(f) == f.challenge_point # Unset /\ f.opening_challenge # Unset
\* The values a call returns.
Returned(f) == f.pc = "done"
IsFailure(result) == result.tag \in {"FiatShamirError", "PCError"}

\* The order of the stages, the same for prove (opens) and verify (checks):
\* every backend call was given two derived challenges; a call that returned
\* returned exactly one value.
StagesInOrder(f) ==
    /\ \A i \in 1 .. Len(f.calls) :
          f.calls[i].point # Unset /\ f.calls[i].chal # Unset
    /\ f.calls # <<>> => ChallengesDerived(f)
    /\ Returned(f) <=> f.result # NoResult

\* C16 as stated: every prove call goes Idle, ChallengeDerived, Opened,
\* ProofEmitted and every verify call Idle, ChallengeRederived, Checking,
\* Accepted or Rejected.
C16_EveryCallTakesThePath ==
    /\ StagesInOrder(prover)
    /\ StagesInOrder(verifier)
    /\ Returned(prover) =>
          /\ ChallengesDerived(prover)
          /\ Len(prover.calls) = 2
          /\ prover.result = Accepted
    /\ Returned(verifier) =>
          /\ ChallengesDerived(verifier)
          /\ verifier.calls # <<>>
          /\ verifier.result \in {Accepted} \cup Rejections

\* C16 (amended): a call that returns no failure takes the path: a proof is
\* emitted only after the challenges were derived and both opens succeeded,
\* verify accepts or rejects only after the challenges were rederived and a
\* check was called; no open and no check is called before both challenges
\* are derived.  A call may leave the path with a failure: FiatShamirError
\* before any challenge, PCError from a failed open or check.  Every call
\* returns, and the value it returned (accepted, rejected or a failure) does
\* not change afterwards.
C16_CallStages ==
    /\ [](/\ StagesInOrder(prover)
          /\ StagesInOrder(verifier)
          /\ prover.result = Accepted =>
                ChallengesDerived(prover) /\ Len(prover.calls) = 2
          /\ verifier.result \in {Accepted} \cup Rejections =>
                ChallengesDerived(verifier) /\ verifier.calls # <<>>
          /\ Returned(prover) =>
                prover.result = Accepted \/ IsFailure(prover.result)
          /\ Returned(verifier) =>
                \/ verifier.result \in {Accepted} \cup Rejections
                \/ IsFailure(verifier.result))
    /\ [][/\ prover.result # NoResult => prover'.result = prover.result
          /\ verifier.result # NoResult => verifier'.result = verifier.result]_vars
    /\ <>Returned(prover)
    /\ (verifier.pc = "start") ~> Returned(verifier)

C16_Witness ==
    /\ Returned(verifier)
    /\ verifier.result.tag = "PCError"
    /\ Len(verifier.calls) = 2
    /\ SameCommitments

\* Two calls, given the commitments coms1 and coms2, handed their backends
\* the same challenges exactly when they were given the same commitments.
SameIffSamePair(coms1, calls1, coms2, calls2) ==
    \A i \in 1 .. Len(calls1), j \in 1 .. Len(calls2) :
        /\ coms1 = coms2 <=> calls1[i].point = calls2[j].point
        /\ coms1 = coms2 <=> calls1[i].chal = calls2[j].chal

\* C17 (no state across calls): over one prove call and any number of verify
\* calls, whatever the proofs and the outcomes of earlier calls, two calls
\* derive the same challenge_point and the same opening_challenge when they
\* are given the same pair of commitments, and different ones when they are
\* given different pairs.
C17_NoStateAcrossCalls ==
    /\ SameIffSamePair(commitments, prover.calls,
                       verifier.commitments, verifier.calls)
    /\ last.set =>
          /\ SameIffSamePair(last.commitments, last.calls,
                             verifier.commitments, verifier.calls)
          /\ SameIffSamePair(commitments, prover.calls,
                             last.commitments, last.calls)

C17_Witness ==
    /\ last.set
    /\ last.commitments # commitments
    /\ last.calls # <<>>
    /\ verifier.commitments = commitments
    /\ verifier.result = Accepted

\* C18: the two backend calls of one prove, and of one verify, share no
\* mutable state: the second call reads nothing the first call wrote, so the
\* generator the second call draws from is not the one the first call left.
C18_NoSharedState ==
    /\ \A i, j \in 1 .. Len(prover.calls) :
          i < j => prover.calls[j].rng_read # prover.calls[i].rng_written
    /\ \A i, j \in 1 .. Len(verifier.calls) :
          i < j => verifier.calls[j].rng_read # verifier.calls[i].rng_written

\* What PC2's check returns on what the verify call was given.
WouldIpaCheck ==
    CheckResult(Check(2, verifier.commitments[2], verifier.challenge_point,
                      verifier.proof.eval, verifier.proof.openings[2],
                      verifier.opening_challenge))

\* C19 (short circuit): once PC1's check has returned Ok(false) or Err,
\* verify has returned, PC1's check is the only backend call it made, and
\* what it returned is made from PC1's result: KZGFailed for Ok(false), the
\* PCError of PC1's error for Err -- also when PC2's check would fail too.
C19_ShortCircuit ==
    verifier.kzg_check \in {"Ok(false)", "Err"} =>
        /\ Returned(verifier)
        /\ Len(verifier.calls) = 1
        /\ verifier.calls[1].sch = 1
        /\ verifier.ipa_check = "none"
        /\ verifier.kzg_check = "Ok(false)" => verifier.result = KZGFailed
        /\ verifier.kzg_check = "Err" =>
              verifier.result
                = from_pc_error(1, Check(1, verifier.commitments[1],
                                         verifier.challenge_point,
                                         verifier.proof.eval,
                                         verifier.proof.openings[1],
                                         verifier.opening_challenge).error)

C19_Witness ==
    /\ Returned(verifier)
    /\ verifier.kzg_check = "Ok(false)"
    /\ WouldIpaCheck = "Err"
    /\ verifier.result = KZGFailed

\* Both opens of the prove call have returned Ok.
BothOpened ==
    /\ Len(prover.calls) = 2
    /\ prover.calls[1].ret = "Ok"
    /\ prover.calls[2].ret = "Ok"

\* C20: prove does not compare the commitments with the polynomial: once
\* both opens have returned Ok, prove has returned Ok with a proof of both
\* openings, whatever polynomial commitment 2 commits to; the failures prove
\* returns are those of the encoding and of an open.  When commitment 2
\* commits to another polynomial, it is verify, given these commitments and
\* this proof, that returns an Err.
C20_ProveDoesNotCheck ==
    /\ BothOpened =>
          /\ Returned(prover)
          /\ prover.result = Accepted
          /\ prover.proof = [eval |-> prover.evaluation,
                             openings |-> <<prover.pc1_opening, prover.pc2_opening>>]
    /\ (Returned(prover) /\ ~BothOpened) =>
          \/ prover.result = FiatShamirError /\ prover.calls = <<>>
          \/ /\ prover.result.tag = "PCError"
             /\ prover.calls[Len(prover.calls)].ret = "Err"
    /\ (~SamePolynomial /\ BothOpened /\ Returned(verifier)
            /\ SameCommitments /\ ProvedProof)
          => verifier.result \in {IPAFailed, FiatShamirError}

C20_Witness ==
    /\ ~SamePolynomial
    /\ BothOpened
    /\ prover.result = Accepted
    /\ Returned(verifier) /\ SameCommitments /\ ProvedProof
    /\ verifier.result = IPAFailed
    /\ Evaluate(commitments[2].poly, verifier.challenge_point)
          # Evaluate(polynomial, verifier.challenge_point)

====
